---------------------------- MODULE Spec2Model ----------------------------
(***************************************************************************)
(* A model of the tex_atlas crate (src/src/lib.rs): the texture atlas page *)
(* (TextureAtlas2D), the multi-page atlas (MultiTextureAtlas2D) and the    *)
(* container codec (to_writer / from_reader).                              *)
(*                                                                         *)
(* Conventions                                                             *)
(*  - Option<T> is [tag |-> "Some", value |-> v] or [tag |-> "None"].      *)
(*  - A call that panics yields [tag |-> "Panic", msg |-> ...].            *)
(*  - A HashMap is a function whose DOMAIN is its key set.                 *)
(*  - An f32 quotient of two small integers is the reduced fraction.       *)
(*  - Archive entry names are sequences of byte values, so that sorting    *)
(*    and ends_with behave as they do on Rust strings.                     *)
(***************************************************************************)
EXTENDS Integers, Sequences, FiniteSets, TLC

VARIABLES
    overflow_checks, \* build profile: TRUE = debug (arithmetic overflow panics)
    pages,           \* the caller's Vec<TextureAtlas2D> of pages built so far
    multi_atlas,     \* the caller's MultiTextureAtlas2D, once built
    archive,         \* the bytes handed to from_reader, as a zip archive
    result,          \* what from_reader returned
    last_call,       \* the last query made on a page or on the multi atlas
    image_buffer     \* a byte buffer the caller hands to orient_image

vars == <<overflow_checks, pages, multi_atlas, archive, result, last_call, image_buffer>>

----------------------------------------------------------------------------
(* Bounds of the model. *)

MaxDim == 3
MaxPages == 2
MaxEntries == 2

----------------------------------------------------------------------------
(* Option, panic and small helpers. *)

Some(v) == [tag |-> "Some", value |-> v]

None == [tag |-> "None"]

Panic(m) == [tag |-> "Panic", msg |-> m]

Range(s) == {s[k] : k \in DOMAIN s}

MaxOf(S) == CHOOSE m \in S : \A x \in S : x <= m

MinOf(S) == CHOOSE m \in S : \A x \in S : m <= x

RECURSIVE Gcd(_, _)
Gcd(a, b) == IF b = 0 THEN a ELSE Gcd(b, a % b)

(* `n as f32 / d as f32` for small naturals: the reduced fraction, or the   *)
(* IEEE result of a division by zero.                                      *)
F32Div(n, d) ==
    IF d = 0
    THEN [kind |-> IF n = 0 THEN "NaN" ELSE "Inf", num |-> 0, den |-> 0]
    ELSE LET g == Gcd(n, d)
         IN [kind |-> "Finite", num |-> n \div g, den |-> d \div g]

(* PartialEq on f32: a NaN equals nothing, itself included. *)
F32Eq(a, b) == a.kind # "NaN" /\ b.kind # "NaN" /\ a = b

(* usize subtraction `a - b`.  With overflow checks (debug profile) an      *)
(* underflow panics; without them (release profile) it wraps to            *)
(* 2^64 + (a - b).  A usize at or above 2^63 is written as its two's       *)
(* complement reading, so the wrapped value 2^64 - k is the integer -k.    *)
UsizeSub(a, b, checks) ==
    IF a >= b THEN [tag |-> "Ok", value |-> a - b]
    ELSE IF checks THEN Panic("attempt to subtract with overflow")
    ELSE [tag |-> "Ok", value |-> a - b]

(* `n as f32 / d as f32` for a usize n in the encoding above: 2^64 - k     *)
(* rounds to 2^64 as an f32 for every small k.                             *)
UsizeF32Div(n, d) ==
    IF n < 0
    THEN IF d = 0 THEN [kind |-> "Inf", num |-> 0, den |-> 0]
         ELSE [kind |-> "Pow64", num |-> 1, den |-> d]
    ELSE F32Div(n, d)

----------------------------------------------------------------------------
(* ColorType and Origin. *)

ColorType ==
    {"L8", "La8", "Rgb8", "Rgba8", "L16", "La16", "Rgb16", "Rgba16", "Bgr8", "Bgra8"}

bytes_per_pixel(c) ==
    CASE c = "L8" -> 1
      [] c = "L16" -> 2
      [] c = "La8" -> 2
      [] c = "Rgb8" -> 3
      [] c = "Bgr8" -> 3
      [] c = "Rgba8" -> 4
      [] c = "Bgra8" -> 4
      [] c = "La16" -> 4
      [] c = "Rgb16" -> 6
      [] c = "Rgba16" -> 8

channel_count(c) ==
    CASE c = "L8" -> 1
      [] c = "L16" -> 1
      [] c = "La8" -> 2
      [] c = "Rgb8" -> 3
      [] c = "Bgr8" -> 3
      [] c = "Rgba8" -> 4
      [] c = "Bgra8" -> 4
      [] c = "La16" -> 2
      [] c = "Rgb16" -> 3
      [] c = "Rgba16" -> 4

Origin == {"TopLeft", "BottomLeft"}

----------------------------------------------------------------------------
(* Coordinate model. *)

OffsetPixelCoords(u, v) == [u |-> u, v |-> v]

BoundingBoxPixelCoords(top_left, width, height) ==
    [top_left |-> top_left, width |-> width, height |-> height]

OffsetTexCoords(u, v) == [u |-> u, v |-> v]

BoundingBoxTexCoords(top_left, width, height) ==
    [top_left |-> top_left, width |-> width, height |-> height]

(* PartialEq derived on BoundingBoxTexCoords: field by field on f32. *)
BoundingBoxTexCoordsEq(a, b) ==
    /\ F32Eq(a.top_left.u, b.top_left.u)
    /\ F32Eq(a.top_left.v, b.top_left.v)
    /\ F32Eq(a.width, b.width)
    /\ F32Eq(a.height, b.height)

AtlasEntry(name, bounding_box_tex, bounding_box_pix) ==
    [name |-> name, bounding_box_tex |-> bounding_box_tex,
     bounding_box_pix |-> bounding_box_pix]

----------------------------------------------------------------------------
(* TextureImage2D. *)

TextureImage2D_new(width, height, color_type, data) ==
    [width |-> width, height |-> height,
     channel_count |-> channel_count(color_type),
     bytes_per_pixel |-> bytes_per_pixel(color_type),
     color_type |-> color_type, data |-> data]

----------------------------------------------------------------------------
(* TextureAtlas2D (a page). *)

(* A variant of the first loop that divides the v offset by the width      *)
(* where the height is meant.                                              *)
BoundingBoxesOf_VOverWidth(width, height, entries) ==
    LET keys == {entries[k][1] : k \in DOMAIN entries}
        last(i) == MaxOf({k \in DOMAIN entries : entries[k][1] = i})
        entry(e) ==
            AtlasEntry(
                e[2],
                BoundingBoxTexCoords(
                    OffsetTexCoords(F32Div(e[3].top_left.u, width),
                                    F32Div(e[3].top_left.v, width)),
                    F32Div(e[3].width, width),
                    F32Div(e[3].height, height)),
                e[3])
    IN [i \in keys |-> entry(entries[last(i)])]

(* The first loop of TextureAtlas2D::new: insert every entry, in order,    *)
(* under its index; a later entry with the same index replaces an earlier. *)
BoundingBoxesOf(width, height, entries) ==
    LET keys == {entries[k][1] : k \in DOMAIN entries}
        last(i) == MaxOf({k \in DOMAIN entries : entries[k][1] = i})
        entry(e) ==
            AtlasEntry(
                e[2],
                BoundingBoxTexCoords(
                    OffsetTexCoords(F32Div(e[3].top_left.u, width),
                                    F32Div(e[3].top_left.v, height)),
                    F32Div(e[3].width, width),
                    F32Div(e[3].height, height)),
                e[3])
    IN [i \in keys |-> entry(entries[last(i)])]

(* The second loop: for i in 0..bounding_boxes.len(), index the map by i   *)
(* and insert (name, i); a later index with the same name replaces an      *)
(* earlier one.                                                            *)
TextureNamesOf(bounding_boxes) ==
    LET n == Cardinality(DOMAIN bounding_boxes)
        names == {bounding_boxes[i].name : i \in 0..(n - 1)}
    IN [nm \in names |-> MaxOf({i \in 0..(n - 1) : bounding_boxes[i].name = nm})]

(* A constructor whose second loop runs over the keys present instead of   *)
(* over 0..bounding_boxes.len().                                           *)
TextureAtlas2D_new_OverKeys(width, height, color_type, origin, entries, atlas_name, data) ==
    LET image_data == TextureImage2D_new(width, height, color_type, data)
        bounding_boxes == BoundingBoxesOf(width, height, entries)
        keys == DOMAIN bounding_boxes
        names == {bounding_boxes[i].name : i \in keys}
    IN [tag |-> "Page",
        width |-> width, height |-> height,
        channel_count |-> image_data.channel_count,
        bytes_per_pixel |-> image_data.bytes_per_pixel,
        color_type |-> color_type, origin |-> origin,
        texture_names |->
            [nm \in names |-> MaxOf({i \in keys : bounding_boxes[i].name = nm})],
        bounding_boxes |-> bounding_boxes,
        atlas_name |-> atlas_name,
        data |-> image_data]

TextureAtlas2D_new(width, height, color_type, origin, entries, atlas_name, data) ==
    LET image_data == TextureImage2D_new(width, height, color_type, data)
        bounding_boxes == BoundingBoxesOf(width, height, entries)
        n == Cardinality(DOMAIN bounding_boxes)
    IN IF \E i \in 0..(n - 1) : i \notin DOMAIN bounding_boxes
       THEN Panic("HashMap index: key not found")
       ELSE [tag |-> "Page",
             width |-> width, height |-> height,
             channel_count |-> image_data.channel_count,
             bytes_per_pixel |-> image_data.bytes_per_pixel,
             color_type |-> color_type, origin |-> origin,
             texture_names |-> TextureNamesOf(bounding_boxes),
             bounding_boxes |-> bounding_boxes,
             atlas_name |-> atlas_name,
             data |-> image_data]

len_pixels(p) == p.data.width * p.data.height

len_bytes(p) == Len(p.data.data)

as_bytes(p) == p.data.data

texture_count(p) == Cardinality(DOMAIN p.texture_names)

texture_names(p) == DOMAIN p.texture_names

indices(p) == DOMAIN p.bounding_boxes

(* HashMap index `map[&key]`: panics when the key is absent. *)
by_texture_name(p, name) ==
    IF name \in DOMAIN p.texture_names
    THEN IF p.texture_names[name] \in DOMAIN p.bounding_boxes
         THEN Some(p.bounding_boxes[p.texture_names[name]].bounding_box_pix)
         ELSE Panic("HashMap index: key not found")
    ELSE None

by_texture_name_uv(p, name) ==
    IF name \in DOMAIN p.texture_names
    THEN IF p.texture_names[name] \in DOMAIN p.bounding_boxes
         THEN Some(p.bounding_boxes[p.texture_names[name]].bounding_box_tex)
         ELSE Panic("HashMap index: key not found")
    ELSE None

by_index(p, index) ==
    IF index < Cardinality(DOMAIN p.bounding_boxes)
    THEN IF index \in DOMAIN p.bounding_boxes
         THEN Some(p.bounding_boxes[index].bounding_box_pix)
         ELSE Panic("HashMap index: key not found")
    ELSE None

by_index_uv(p, index) ==
    IF index < Cardinality(DOMAIN p.bounding_boxes)
    THEN IF index \in DOMAIN p.bounding_boxes
         THEN Some(p.bounding_boxes[index].bounding_box_tex)
         ELSE Panic("HashMap index: key not found")
    ELSE None


(* The closure shared by by_index_corners and by_texture_name_corners. *)
CornersPixel(bounding_box, checks) ==
    LET width == bounding_box.width
        height == bounding_box.height
        top_left == bounding_box.top_left
        low == UsizeSub(top_left.v, height, checks)
    IN IF low.tag = "Panic" THEN low
       ELSE Some([top_left |-> top_left,
                  top_right |-> OffsetPixelCoords(top_left.u + width, top_left.v),
                  bottom_left |-> OffsetPixelCoords(top_left.u, low.value),
                  bottom_right |-> OffsetPixelCoords(top_left.u + width, low.value)])

(* The closure shared by by_index_corners_uv and by_texture_name_corners_uv. *)
CornersTex(p, bounding_box, checks) ==
    LET atlas_width == p.width
        atlas_height == p.height
        width == bounding_box.width
        height == bounding_box.height
        top_left == bounding_box.top_left
        low == UsizeSub(top_left.v, height, checks)
    IN IF low.tag = "Panic" THEN low
       ELSE Some([top_left |->
                      OffsetTexCoords(F32Div(top_left.u, atlas_width),
                                      F32Div(top_left.v, atlas_height)),
                  top_right |->
                      OffsetTexCoords(F32Div(top_left.u + width, atlas_width),
                                      F32Div(top_left.v, atlas_height)),
                  bottom_left |->
                      OffsetTexCoords(F32Div(top_left.u, atlas_width),
                                      UsizeF32Div(low.value, atlas_height)),
                  bottom_right |->
                      OffsetTexCoords(F32Div(top_left.u + width, atlas_width),
                                      UsizeF32Div(low.value, atlas_height))])

by_index_corners(p, index, checks) ==
    LET b == by_index(p, index)
    IN IF b.tag = "Some" THEN CornersPixel(b.value, checks) ELSE b

by_index_corners_uv(p, index, checks) ==
    LET b == by_index(p, index)
    IN IF b.tag = "Some" THEN CornersTex(p, b.value, checks) ELSE b

by_texture_name_corners(p, name, checks) ==
    LET b == by_texture_name(p, name)
    IN IF b.tag = "Some" THEN CornersPixel(b.value, checks) ELSE b

by_texture_name_corners_uv(p, name, checks) ==
    LET b == by_texture_name(p, name)
    IN IF b.tag = "Some" THEN CornersTex(p, b.value, checks) ELSE b

(* coordinate_charts: one serialization entry per texture name, keyed by   *)
(* the index the name maps to.                                             *)
coordinate_charts(p) ==
    LET keys == {p.texture_names[nm] : nm \in DOMAIN p.texture_names}
        name_of(i) == CHOOSE nm \in DOMAIN p.texture_names : p.texture_names[nm] = i
    IN [origin |-> p.origin,
        coordinate_charts |->
            [i \in keys |-> [name |-> name_of(i),
                             bounding_box |-> p.bounding_boxes[i].bounding_box_pix]]]

image(p) == p.data


----------------------------------------------------------------------------
(* MultiTextureAtlas2D.  `pages` is a Vec, held as a sequence: the page at *)
(* Rust index i is pages[i + 1].                                           *)

MultiTextureAtlas2D_new(ps, names) ==
    [tag |-> "MultiAtlas",
     pages |-> ps,
     page_names |->
         [nm \in Range(names) |-> MaxOf({i \in 0..(Len(names) - 1) : names[i + 1] = nm})]]

page_count(m) == Len(m.pages)

(* Vec index `pages[index]`: panics when index >= pages.len(). *)
by_page_name(m, name) ==
    IF name \in DOMAIN m.page_names
    THEN IF m.page_names[name] < Len(m.pages)
         THEN Some(m.pages[m.page_names[name] + 1])
         ELSE Panic("index out of bounds")
    ELSE None

by_page_index(m, index) ==
    IF index <= Len(m.pages)
    THEN IF index < Len(m.pages)
         THEN Some(m.pages[index + 1])
         ELSE Panic("index out of bounds")
    ELSE None

----------------------------------------------------------------------------
(* Strings as byte sequences. *)

Ext_json == <<46, 106, 115, 111, 110>>

Ext_png == <<46, 112, 110, 103>>

ends_with(s, suffix) ==
    /\ Len(s) >= Len(suffix)
    /\ SubSeq(s, Len(s) - Len(suffix) + 1, Len(s)) = suffix

(* Ord on str: bytewise lexicographic. *)
StrLess(a, b) ==
    \E k \in 1..(Len(b)) :
        /\ \A j \in 1..(k - 1) : j <= Len(a) /\ a[j] = b[j]
        /\ \/ k = Len(a) + 1
           \/ k <= Len(a) /\ a[k] < b[k]

RECURSIVE SortStrs(_)
SortStrs(S) ==
    IF S = {} THEN <<>>
    ELSE LET m == CHOOSE x \in S : \A y \in S \ {x} : StrLess(x, y)
         IN <<m>> \o SortStrs(S \ {m})

(* usize to decimal text and back (the keys of the JSON object). *)
RECURSIVE UsizeToString(_)
UsizeToString(n) ==
    IF n < 10 THEN <<48 + n>> ELSE UsizeToString(n \div 10) \o <<48 + (n % 10)>>

IsDigits(s) == Len(s) > 0 /\ \A k \in DOMAIN s : s[k] \in 48..57

RECURSIVE ParseUsize(_)
ParseUsize(s) ==
    IF Len(s) = 1 THEN s[1] - 48
    ELSE 10 * ParseUsize(SubSeq(s, 1, Len(s) - 1)) + (s[Len(s)] - 48)

----------------------------------------------------------------------------
(* Orientation transform. *)

(* A variant of the row-swap loop that keeps no temporary: the low byte is *)
(* overwritten before it is copied to the mirrored row.                    *)
RECURSIVE FlipLoop_NoTemp(_, _, _, _, _)
FlipLoop_NoTemp(buf, height, width_in_bytes, row, col) ==
    IF row >= height \div 2 THEN [tag |-> "Ok", image |-> buf]
    ELSE IF col >= width_in_bytes
         THEN FlipLoop_NoTemp(buf, height, width_in_bytes, row + 1, 0)
         ELSE LET lo == row * width_in_bytes + col
                  hi == ((height - row - 1) * width_in_bytes) + col
              IN IF lo >= Len(buf) \/ hi >= Len(buf)
                 THEN Panic("index out of bounds")
                 ELSE FlipLoop_NoTemp([buf EXCEPT ![lo + 1] = buf[hi + 1]],
                                      height, width_in_bytes, row, col + 1)

(* A variant of the row-swap loop that runs over every row, not over the   *)
(* first half of the rows.                                                 *)
RECURSIVE FlipLoop_EveryRow(_, _, _, _, _)
FlipLoop_EveryRow(buf, height, width_in_bytes, row, col) ==
    IF row >= height THEN [tag |-> "Ok", image |-> buf]
    ELSE IF col >= width_in_bytes
         THEN FlipLoop_EveryRow(buf, height, width_in_bytes, row + 1, 0)
         ELSE LET lo == row * width_in_bytes + col
                  hi == ((height - row - 1) * width_in_bytes) + col
              IN IF lo >= Len(buf) \/ hi >= Len(buf)
                 THEN Panic("index out of bounds")
                 ELSE LET temp == buf[lo + 1]
                          swapped == [buf EXCEPT ![lo + 1] = buf[hi + 1],
                                                   ![hi + 1] = temp]
                      IN FlipLoop_EveryRow(swapped, height, width_in_bytes, row, col + 1)

(* The row-swap loop of orient_image and of load_image_from_reader, one    *)
(* (row, col) step at a time; an index past the buffer's end panics.       *)
RECURSIVE FlipLoop(_, _, _, _, _)
FlipLoop(buf, height, width_in_bytes, row, col) ==
    IF row >= height \div 2 THEN [tag |-> "Ok", image |-> buf]
    ELSE IF col >= width_in_bytes
         THEN FlipLoop(buf, height, width_in_bytes, row + 1, 0)
         ELSE LET lo == row * width_in_bytes + col
                  hi == ((height - row - 1) * width_in_bytes) + col
              IN IF lo >= Len(buf) \/ hi >= Len(buf)
                 THEN Panic("index out of bounds")
                 ELSE LET temp == buf[lo + 1]
                          swapped == [buf EXCEPT ![lo + 1] = buf[hi + 1],
                                                   ![hi + 1] = temp]
                      IN FlipLoop(swapped, height, width_in_bytes, row, col + 1)

orient_image(buf, origin, height, width_in_bytes) ==
    IF origin = "BottomLeft"
    THEN FlipLoop(buf, height, width_in_bytes, 0, 0)
    ELSE [tag |-> "Ok", image |-> buf]

----------------------------------------------------------------------------
(* The container codec.  An archive is [tag |-> "Zip", files |-> f], f a   *)
(* function from entry names to entry contents, or [tag |-> "NotZip"].     *)
(* A JSON entry is [kind |-> "Json", origin, charts], charts a function    *)
(* from the text of each key to {name, bounding_box}; a PNG entry is       *)
(* [kind |-> "Png", width, height, color_type, data], data the rows top    *)
(* to bottom; anything else is [kind |-> "Garbage"].                       *)

Err(kind, name) == [tag |-> "Err", kind |-> kind, atlas_name |-> name]

Garbage == [kind |-> "Garbage"]

(* serde_json::to_writer_pretty of a TextureAtlas2DSerialization. *)
JsonEncode(chart) ==
    [kind |-> "Json",
     origin |-> chart.origin,
     charts |-> [key \in {UsizeToString(i) : i \in DOMAIN chart.coordinate_charts} |->
                    chart.coordinate_charts[ParseUsize(key)]]]

(* serde_json::from_reader into a TextureAtlas2DSerialization. *)
JsonDecode(content) ==
    IF /\ content.kind = "Json"
       /\ content.origin \in Origin
       /\ \A key \in DOMAIN content.charts : IsDigits(key)
    THEN [tag |-> "Ok",
          value |-> [origin |-> content.origin,
                     coordinate_charts |->
                         [i \in {ParseUsize(key) : key \in DOMAIN content.charts} |->
                             content.charts[UsizeToString(i)]]]]
    ELSE [tag |-> "Err"]

(* png::PNGEncoder::encode(bytes, width, height, color): the encoder       *)
(* refuses a buffer that is not width * height * bytes-per-pixel long.     *)
PngEncode(bytes, width, height, color) ==
    IF Len(bytes) = width * height * bytes_per_pixel(color)
    THEN [tag |-> "Ok",
          value |-> [kind |-> "Png", width |-> width, height |-> height,
                     color_type |-> color, data |-> bytes]]
    ELSE [tag |-> "Err"]

(* A decoder that takes the codec's color type as it comes. *)
load_image_from_reader_AnyColor(content) ==
    IF content.kind # "Png"
    THEN Err("CouldNotLoadAtlasImageBuffer", <<>>)
    ELSE LET width == content.width
             height == content.height
             bpp == bytes_per_pixel(content.color_type)
             width_in_bytes == bpp * width
             flipped == FlipLoop(content.data, height, width_in_bytes, 0, 0)
         IN IF flipped.tag = "Panic" THEN flipped
            ELSE [tag |-> "Ok",
                  value |-> TextureImage2D_new(width, height, content.color_type,
                                               flipped.image)]

load_image_from_reader(content) ==
    IF content.kind # "Png"
    THEN Err("CouldNotLoadAtlasImageBuffer", <<>>)
    ELSE IF content.color_type # "Rgba8"
    THEN Err("UnrecognizedColorType", <<>>)
    ELSE LET width == content.width
             height == content.height
             bpp == bytes_per_pixel(content.color_type)
             width_in_bytes == bpp * width
             flipped == FlipLoop(content.data, height, width_in_bytes, 0, 0)
         IN IF flipped.tag = "Panic" THEN flipped
            ELSE [tag |-> "Ok",
                  value |-> TextureImage2D_new(width, height, "Rgba8", flipped.image)]

RECURSIVE BitAnd(_, _)
BitAnd(a, b) ==
    IF a = 0 \/ b = 0 THEN 0
    ELSE (a % 2) * (b % 2) + 2 * BitAnd(a \div 2, b \div 2)

(* A variant of the power-of-two test that looks at the lowest bit only. *)
NotPowerOfTwo_LowBit(x, checks) == [tag |-> "Ok", value |-> BitAnd(x, 1) # 0]

(* (x & (x - 1)) != 0 on usize; 0 - 1 wraps to all ones, and 0 & it is 0. *)
NotPowerOfTwo(x, checks) ==
    LET d == UsizeSub(x, 1, checks)
    IN IF d.tag = "Panic" THEN d
       ELSE [tag |-> "Ok", value |-> IF d.value < 0 THEN FALSE ELSE BitAnd(x, d.value) # 0]

(* The keys of a HashMap in some order.  The order of iteration is not     *)
(* fixed; TextureAtlas2D::new gives the same page for every order when the *)
(* texture names of the chart are distinct, as in every chart read here.   *)
RECURSIVE KeysInOrder(_)
KeysInOrder(S) ==
    IF S = {} THEN <<>> ELSE <<MinOf(S)>> \o KeysInOrder(S \ {MinOf(S)})

atlas_from_reader(files, page_name, checks) ==
    LET coordinate_charts_name == page_name \o Ext_json
        image_file_name == page_name \o Ext_png
    IN IF coordinate_charts_name \notin DOMAIN files
       THEN Err("CouldNotLoadCoordinateCharts", page_name)
       ELSE LET atlas_chart_data == JsonDecode(files[coordinate_charts_name])
            IN IF atlas_chart_data.tag = "Err"
               THEN Err("CouldNotLoadCoordinateCharts", page_name)
               ELSE IF image_file_name \notin DOMAIN files
               THEN Err("CouldNotLoadAtlasImageBuffer", page_name)
               ELSE LET tex_image == load_image_from_reader(files[image_file_name])
                    IN IF tex_image.tag # "Ok" THEN tex_image
                       ELSE LET width == tex_image.value.width
                                height == tex_image.value.height
                                w2 == NotPowerOfTwo(width, checks)
                                h2 == NotPowerOfTwo(height, checks)
                                charts == atlas_chart_data.value.coordinate_charts
                                order == KeysInOrder(DOMAIN charts)
                                atlas_entries ==
                                    [k \in DOMAIN order |->
                                        <<order[k], charts[order[k]].name,
                                          charts[order[k]].bounding_box>>]
                                atlas ==
                                    TextureAtlas2D_new(
                                        width, height, tex_image.value.color_type,
                                        atlas_chart_data.value.origin, atlas_entries,
                                        page_name, tex_image.value.data)
                            IN IF w2.tag = "Panic" THEN w2
                               ELSE IF (~w2.value) /\ h2.tag = "Panic" THEN h2
                               ELSE IF atlas.tag = "Panic" THEN atlas
                               ELSE [tag |-> "Ok",
                                     atlas |-> atlas,
                                     warnings |->
                                         IF w2.value \/ h2.value
                                         THEN "TextureDimensionsAreNotAPowerOfTwo"
                                         ELSE "NoWarnings"]

(* The scan of extract_atlas_names over the sorted names, from position i. *)
(* `&&` evaluates its right operand only when the left one holds, and      *)
(* indexing the Vec at or past its length panics.                          *)
RECURSIVE ExtractLoop(_, _, _, _, _)
ExtractLoop(file_names, i, atlas_names, missing_coordinates, missing_images) ==
    LET n == Len(file_names)
        at(j) == file_names[j + 1]
        is_json == ends_with(at(i), Ext_json)
        base(ext) == SubSeq(at(i), 1, Len(at(i)) - Len(ext))
    IN IF i >= n
       THEN [tag |-> "Ok", atlas_names |-> atlas_names,
             atlases_missing_coordinates |-> missing_coordinates,
             atlases_missing_images |-> missing_images]
       ELSE IF is_json /\ i + 1 >= n THEN Panic("index out of bounds")
       ELSE IF is_json /\ ends_with(at(i + 1), Ext_png)
       THEN ExtractLoop(file_names, i + 2, Append(atlas_names, base(Ext_json)),
                        missing_coordinates, missing_images)
       ELSE IF i + i >= n THEN Panic("index out of bounds")
       ELSE IF is_json /\ ~ends_with(at(i + i), Ext_png)
       THEN ExtractLoop(file_names, i + 1, atlas_names, missing_coordinates,
                        Append(missing_images, base(Ext_json)))
       ELSE IF (~is_json) /\ ends_with(at(i + i), Ext_png)
       THEN ExtractLoop(file_names, i + 1, atlas_names,
                        Append(missing_coordinates, base(Ext_png)), missing_images)
       ELSE ExtractLoop(file_names, i + 1, atlas_names, missing_coordinates,
                        missing_images)

(* A scan over every entry name of the archive, whatever its ending. *)
extract_atlas_names_NoFilter(files) ==
    ExtractLoop(SortStrs(DOMAIN files), 0, <<>>, <<>>, <<>>)

extract_atlas_names(files) ==
    LET file_names ==
            SortStrs({f \in DOMAIN files : ends_with(f, Ext_json) \/ ends_with(f, Ext_png)})
    IN ExtractLoop(file_names, 0, <<>>, <<>>, <<>>)

(* A page loop that keeps a page's warning only when there is one to give. *)
RECURSIVE ReadPages_OnlyRaised(_, _, _, _, _, _)
ReadPages_OnlyRaised(files, atlas_names, k, ps, warnings, checks) ==
    IF k > Len(atlas_names)
    THEN [tag |-> "Ok",
          multi_atlas |-> MultiTextureAtlas2D_new(ps, atlas_names),
          warnings |-> warnings]
    ELSE LET r == atlas_from_reader(files, atlas_names[k], checks)
         IN IF r.tag # "Ok" THEN r
            ELSE ReadPages_OnlyRaised(
                     files, atlas_names, k + 1, Append(ps, r.atlas),
                     IF r.warnings = "NoWarnings" THEN warnings
                     ELSE Append(warnings, r.warnings),
                     checks)

(* The page loop of from_reader, from the k-th complete base name on; the  *)
(* loop pushes one name per page, so at its end page_names is atlas_names. *)
RECURSIVE ReadPages(_, _, _, _, _, _)
ReadPages(files, atlas_names, k, ps, warnings, checks) ==
    IF k > Len(atlas_names)
    THEN [tag |-> "Ok",
          multi_atlas |-> MultiTextureAtlas2D_new(ps, atlas_names),
          warnings |-> warnings]
    ELSE LET r == atlas_from_reader(files, atlas_names[k], checks)
         IN IF r.tag # "Ok" THEN r
            ELSE ReadPages(files, atlas_names, k + 1, Append(ps, r.atlas),
                           Append(warnings, r.warnings), checks)

from_reader(reader, checks) ==
    IF reader.tag # "Zip" THEN Err("CouldNotOpenTextureAtlas", <<>>)
    ELSE LET names == extract_atlas_names(reader.files)
         IN IF names.tag = "Panic" THEN names
            ELSE IF names.atlases_missing_coordinates # <<>>
            THEN Err("MissingCoordinateCharts", names.atlases_missing_coordinates[1])
            ELSE IF names.atlases_missing_images # <<>>
            THEN Err("MissingImageBuffer", names.atlases_missing_images[1])
            ELSE ReadPages(reader.files, names.atlas_names, 1, <<>>, <<>>, checks)

(* load_from_memory: from_reader on a cursor over the bytes. *)
load_from_memory(buffer, checks) == from_reader(buffer, checks)

(* A variant of load_file that unwraps the result of File::open. *)
load_file_Unwrap(file, checks) ==
    IF file.tag = "NoFile" THEN Panic("unwrap on an Err value")
    ELSE from_reader(file, checks)

(* load_file: File::open, whose failure is CouldNotOpenTextureAtlas, then  *)
(* from_reader on the file.  A path with no file is [tag |-> "NoFile"].    *)
load_file(file, checks) ==
    IF file.tag = "NoFile" THEN Err("CouldNotOpenTextureAtlas", <<>>)
    ELSE from_reader(file, checks)

(* The page loop of to_writer, from the k-th page on; `files` are the      *)
(* entries started so far and `entries` their names in the order started.  *)
(* The archive is "Zip" once zip_file.finish() has run, "Unfinished" when  *)
(* to_writer left before it.                                               *)
RECURSIVE WritePages(_, _, _, _)
WritePages(m, k, files, entries) ==
    IF k > Len(m.pages)
    THEN [tag |-> "Ok",
          archive |-> [tag |-> "Zip", files |-> files, entries |-> entries]]
    ELSE LET atlas == m.pages[k]
             json_name == atlas.atlas_name \o Ext_json
             png_name == atlas.atlas_name \o Ext_png
             json == JsonEncode(coordinate_charts(atlas))
             with_json == [f \in DOMAIN files \cup {json_name} |->
                              IF f = json_name THEN json ELSE files[f]]
             width_in_bytes == bytes_per_pixel(atlas.color_type) * atlas.width
             oriented == orient_image(image(atlas).data, atlas.origin, atlas.height,
                                      width_in_bytes)
             png == PngEncode(oriented.image, atlas.width, atlas.height, "Rgba8")
             with_png(content) == [f \in DOMAIN with_json \cup {png_name} |->
                                      IF f = png_name THEN content ELSE with_json[f]]
         IN IF oriented.tag = "Panic"
            THEN [tag |-> "Panic", msg |-> oriented.msg,
                  archive |-> [tag |-> "Unfinished", files |-> with_json,
                               entries |-> Append(entries, json_name)]]
            ELSE IF png.tag = "Err"
            THEN [tag |-> "Err",
                  archive |-> [tag |-> "Unfinished", files |-> with_png(Garbage),
                               entries |-> entries \o <<json_name, png_name>>]]
            ELSE WritePages(m, k + 1, with_png(png.value),
                            entries \o <<json_name, png_name>>)

to_writer(m) == WritePages(m, 1, [f \in {} |-> Garbage], <<>>)

----------------------------------------------------------------------------
(* The caller: inputs the public API is called with. *)

Str_a == <<97>>

TextureNameSet == {"red", "blue"}

BoxSet ==
    {BoundingBoxPixelCoords(OffsetPixelCoords(0, 1), 1, 1),
     BoundingBoxPixelCoords(OffsetPixelCoords(0, 0), 1, 1)}

EntrySet == (0..(MaxEntries - 1)) \X TextureNameSet \X BoxSet

EntryLists == UNION {[1..n -> EntrySet] : n \in 0..MaxEntries}

(* A byte buffer of n bytes, every byte different from its neighbours. *)
Ramp(n) == [k \in 1..n |-> (k - 1) % 256]

(* Buffers of the length the page's dimensions call for, and one byte off. *)
DataChoices(width, height, color_type) ==
    LET n == width * height * bytes_per_pixel(color_type)
    IN {Ramp(m) : m \in {n - 1, n, n + 1}}

PageDims == {<<1, 1>>, <<MaxDim - 1, MaxDim>>}

PageInputs ==
    UNION {{[width |-> d[1], height |-> d[2], color_type |-> c, origin |-> o,
             entries |-> e, atlas_name |-> Str_a, data |-> b] :
               o \in Origin, e \in EntryLists, b \in DataChoices(d[1], d[2], c)} :
           d \in PageDims, c \in {"Rgba8", "L8"}}

NoCall == [op |-> "none", page |-> 0, name |-> "", index |-> 0, outcome |-> None]

Call(op, page, name, index, outcome) ==
    [op |-> op, page |-> page, name |-> name, index |-> index, outcome |-> outcome]

NoAtlas == [tag |-> "None"]

NoArchive == [tag |-> "None"]

NoResult == [tag |-> "None"]

NoImage == [tag |-> "None"]

(* The caller builds a page with TextureAtlas2D::new and keeps it. *)
NewPage(U, limit) ==
    /\ Len(pages) < limit
    /\ \E in \in U :
          LET r == TextureAtlas2D_new(in.width, in.height, in.color_type, in.origin,
                                      in.entries, in.atlas_name, in.data)
          IN IF r.tag = "Panic"
             THEN /\ pages' = pages
                  /\ last_call' = Call("new", 0, "", 0, r)
             ELSE /\ pages' = Append(pages, r)
                  /\ last_call' = Call("new", Len(pages) + 1, "", 0, Some(TRUE))
    /\ UNCHANGED <<overflow_checks, multi_atlas, archive, result, image_buffer>>

QueryIndices == 0..MaxEntries

QueryNames == TextureNameSet \cup {"green"}

ByIndex ==
    /\ \E k \in DOMAIN pages, i \in QueryIndices :
          last_call' = Call("by_index", k, "", i, by_index(pages[k], i))
    /\ UNCHANGED <<overflow_checks, pages, multi_atlas, archive, result, image_buffer>>

ByIndexUv ==
    /\ \E k \in DOMAIN pages, i \in QueryIndices :
          last_call' = Call("by_index_uv", k, "", i, by_index_uv(pages[k], i))
    /\ UNCHANGED <<overflow_checks, pages, multi_atlas, archive, result, image_buffer>>

ByIndexCorners ==
    /\ \E k \in DOMAIN pages, i \in QueryIndices :
          last_call' = Call("by_index_corners", k, "", i,
                            by_index_corners(pages[k], i, overflow_checks))
    /\ UNCHANGED <<overflow_checks, pages, multi_atlas, archive, result, image_buffer>>

ByIndexCornersUv ==
    /\ \E k \in DOMAIN pages, i \in QueryIndices :
          last_call' = Call("by_index_corners_uv", k, "", i,
                            by_index_corners_uv(pages[k], i, overflow_checks))
    /\ UNCHANGED <<overflow_checks, pages, multi_atlas, archive, result, image_buffer>>

ByTextureName ==
    /\ \E k \in DOMAIN pages, nm \in QueryNames :
          last_call' = Call("by_texture_name", k, nm, 0, by_texture_name(pages[k], nm))
    /\ UNCHANGED <<overflow_checks, pages, multi_atlas, archive, result, image_buffer>>

ByTextureNameUv ==
    /\ \E k \in DOMAIN pages, nm \in QueryNames :
          last_call' = Call("by_texture_name_uv", k, nm, 0,
                            by_texture_name_uv(pages[k], nm))
    /\ UNCHANGED <<overflow_checks, pages, multi_atlas, archive, result, image_buffer>>

ByTextureNameCorners ==
    /\ \E k \in DOMAIN pages, nm \in QueryNames :
          last_call' = Call("by_texture_name_corners", k, nm, 0,
                            by_texture_name_corners(pages[k], nm, overflow_checks))
    /\ UNCHANGED <<overflow_checks, pages, multi_atlas, archive, result, image_buffer>>

ByTextureNameCornersUv ==
    /\ \E k \in DOMAIN pages, nm \in QueryNames :
          last_call' = Call("by_texture_name_corners_uv", k, nm, 0,
                            by_texture_name_corners_uv(pages[k], nm, overflow_checks))
    /\ UNCHANGED <<overflow_checks, pages, multi_atlas, archive, result, image_buffer>>

----------------------------------------------------------------------------
(* The page API on its own: one page is built, then queried. *)

InitPage ==
    /\ overflow_checks \in BOOLEAN
    /\ pages = <<>>
    /\ multi_atlas = NoAtlas
    /\ archive = NoArchive
    /\ result = NoResult
    /\ last_call = NoCall
    /\ image_buffer = NoImage

NewPageAlone == NewPage(PageInputs, 1)

NextPage ==
    \/ NewPageAlone
    \/ ByIndex
    \/ ByIndexUv
    \/ ByIndexCorners
    \/ ByIndexCornersUv
    \/ ByTextureName
    \/ ByTextureNameUv
    \/ ByTextureNameCorners
    \/ ByTextureNameCornersUv

SpecPage == InitPage /\ [][NextPage]_vars

----------------------------------------------------------------------------
(* Claims about the page API, checked under SpecPage. *)

IndexOps == {"by_index", "by_index_uv", "by_index_corners", "by_index_corners_uv"}

NameOps ==
    {"by_texture_name", "by_texture_name_uv", "by_texture_name_corners",
     "by_texture_name_corners_uv"}

(* C7: every page satisfies len_pixels() = width * height and              *)
(* len_bytes() = width * height * bytes_per_pixel; a buffer of any other    *)
(* length is rejected at construction, so no such page is ever held.       *)
C7_PageBufferLength ==
    \A k \in DOMAIN pages :
        /\ len_pixels(pages[k]) = pages[k].width * pages[k].height
        /\ len_bytes(pages[k]) =
               pages[k].width * pages[k].height * pages[k].bytes_per_pixel

(* C8: for every page and every texture entry with index i and name n,     *)
(* by_texture_name(n) = by_index(i) and by_texture_name_uv(n) =            *)
(* by_index_uv(i): the name map and the index map are mutual inverses.     *)
C8_NameAndIndexAgree ==
    \A k \in DOMAIN pages :
        \A i \in indices(pages[k]) :
            LET n == pages[k].bounding_boxes[i].name
                by_n == by_texture_name_uv(pages[k], n)
                by_i == by_index_uv(pages[k], i)
            IN /\ by_texture_name(pages[k], n) = by_index(pages[k], i)
               /\ by_n.tag = "Some"
               /\ by_i.tag = "Some"
               /\ BoundingBoxTexCoordsEq(by_n.value, by_i.value)

(* C9: for every page, by_index(i) and by_index_uv(i) return Some exactly  *)
(* when i < texture_count().                                               *)
C9_SomeIffBelowTextureCount ==
    \A k \in DOMAIN pages :
        \A i \in QueryIndices :
            /\ (by_index(pages[k], i).tag = "Some") <=> (i < texture_count(pages[k]))
            /\ (by_index_uv(pages[k], i).tag = "Some") <=> (i < texture_count(pages[k]))

(* C10: every page query by name or by index returns None, without         *)
(* raising, when the name is not a texture of the page or the index is out *)
(* of range, and returns Some for every name in texture_names().           *)
C10_QueriesNeverRaise ==
    /\ last_call.op \in NameOps =>
          IF last_call.name \in texture_names(pages[last_call.page])
          THEN last_call.outcome.tag = "Some"
          ELSE last_call.outcome = None
    /\ last_call.op \in IndexOps =>
          (last_call.index >= Cardinality(indices(pages[last_call.page]))
              => last_call.outcome = None)

----------------------------------------------------------------------------
(* The codec: the caller builds pages and a multi atlas, writes it with    *)
(* to_writer and reads the archive back with from_reader; or hands         *)
(* from_reader an archive that came from elsewhere.                        *)

Str_b == <<98>>

Str_a_k == <<97, 46, 107>>

Str_r_txt == <<114, 46, 116, 120, 116>>

BaseNames == {Str_a, Str_a_k, Str_b}

CodecDims == {<<1, k>> : k \in 1..MaxDim} \cup {<<MaxDim, 1>>}

CodecEntryLists ==
    {<<>>,
     <<<<0, "red", BoundingBoxPixelCoords(OffsetPixelCoords(0, 1), 1, 1)>>,
       <<1, "blue", BoundingBoxPixelCoords(OffsetPixelCoords(0, 0), 1, 1)>>>>}

(* Pages the caller builds: 8-bit RGBA pages of every size of CodecDims,   *)
(* origin and entry list with a buffer of the right length, one RGB page,  *)
(* and one RGBA page whose buffer is a byte short.                         *)
CodecInputs ==
    UNION {
        {[width |-> d[1], height |-> d[2], color_type |-> "Rgba8", origin |-> o,
          entries |-> e, atlas_name |-> n,
          data |-> Ramp(d[1] * d[2] * bytes_per_pixel("Rgba8"))] :
            d \in CodecDims, o \in Origin, e \in CodecEntryLists}
        \cup
        {[width |-> 1, height |-> 1, color_type |-> "Rgb8", origin |-> "TopLeft",
          entries |-> <<>>, atlas_name |-> n, data |-> Ramp(bytes_per_pixel("Rgb8"))],
         [width |-> 1, height |-> 2, color_type |-> "Rgba8", origin |-> "BottomLeft",
          entries |-> <<>>, atlas_name |-> n,
          data |-> Ramp(2 * bytes_per_pixel("Rgba8") - 1)]} :
        n \in BaseNames}

Init ==
    /\ overflow_checks \in BOOLEAN
    /\ pages = <<>>
    /\ multi_atlas = NoAtlas
    /\ archive = NoArchive
    /\ result = NoResult
    /\ last_call = NoCall
    /\ image_buffer = NoImage

(* The caller builds one more page, under a name no earlier page has. *)
NewPageForAtlas ==
    /\ multi_atlas = NoAtlas
    /\ archive = NoArchive
    /\ NewPage({in \in CodecInputs :
                   \A k \in DOMAIN pages : pages[k].atlas_name # in.atlas_name},
               MaxPages)

(* The caller gathers its pages under their own names. *)
NewMultiAtlas ==
    /\ multi_atlas = NoAtlas
    /\ archive = NoArchive
    /\ pages # <<>>
    /\ multi_atlas' =
           MultiTextureAtlas2D_new(pages, [k \in DOMAIN pages |-> pages[k].atlas_name])
    /\ last_call' = Call("MultiTextureAtlas2D::new", 0, "", 0, Some(TRUE))
    /\ UNCHANGED <<overflow_checks, pages, archive, result, image_buffer>>

ToWriter ==
    /\ multi_atlas # NoAtlas
    /\ archive = NoArchive
    /\ LET r == to_writer(multi_atlas)
       IN /\ archive' = r.archive
          /\ last_call' = Call("to_writer", 0, "", 0, [tag |-> r.tag])
    /\ UNCHANGED <<overflow_checks, pages, multi_atlas, result, image_buffer>>

(* Entry contents an archive from elsewhere may hold. *)
JsonContents ==
    {[kind |-> "Json", origin |-> "BottomLeft",
      charts |-> [key \in K |->
                     [name |-> "red",
                      bounding_box |->
                          BoundingBoxPixelCoords(OffsetPixelCoords(0, 1), 1, 1)]]] :
        K \in {{}, {UsizeToString(0)}, {UsizeToString(1)}}}
    \cup {Garbage}

PngContents ==
    {[kind |-> "Png", width |-> d[1], height |-> d[2], color_type |-> c,
      data |-> Ramp(d[1] * d[2] * bytes_per_pixel(c))] :
        d \in {<<1, 1>>, <<MaxDim, 1>>}, c \in {"Rgba8", "Rgb8"}}
    \cup {Garbage}

Str_c == <<99>>

(* Base names of the entries of an archive from elsewhere. *)
ArchiveBaseNames == BaseNames \cup {Str_c}

ArchiveNames ==
    {b \o Ext_json : b \in ArchiveBaseNames} \cup {b \o Ext_png : b \in ArchiveBaseNames}
    \cup {Str_r_txt}

Str_d == <<100>>

Str_e == <<101>>

Str_f == <<102>>

(* One archive with more entries: a has no image, c and d have no          *)
(* coordinate chart, b, e and f are complete.                              *)
LongArchiveNames ==
    {Str_a \o Ext_json, Str_b \o Ext_json, Str_b \o Ext_png, Str_c \o Ext_png,
     Str_d \o Ext_png, Str_e \o Ext_json, Str_e \o Ext_png,
     Str_f \o Ext_json, Str_f \o Ext_png}

Str_b_k == <<98, 46, 107>>

(* An archive of six pages, every one with both entries; the entries of    *)
(* b.k sort between b.json and b.png.                                      *)
SkipArchiveNames ==
    {b \o x : b \in {Str_a, Str_b, Str_b_k, Str_c, Str_d, Str_e},
              x \in {Ext_json, Ext_png}}

Str_a_dash == <<97, 45>>

(* An archive of the two pages a and a-, both complete: '-' sorts before   *)
(* '.', so a-.json sorts before a.json.                                    *)
DashArchiveNames ==
    {b \o x : b \in {Str_a, Str_a_dash}, x \in {Ext_json, Ext_png}}

ContentOf(f, json, png) ==
    IF ends_with(f, Ext_json) THEN json
    ELSE IF ends_with(f, Ext_png) THEN png
    ELSE Garbage

(* The caller opens bytes that to_writer did not produce: any set of       *)
(* entries, bytes that are no archive at all, or a path where no file is.  *)
OpenArchive ==
    /\ pages = <<>>
    /\ multi_atlas = NoAtlas
    /\ archive = NoArchive
    /\ \/ archive' = [tag |-> "NotZip"]
       \/ archive' = [tag |-> "NoFile"]
       \/ \E names \in (SUBSET ArchiveNames)
                          \cup {LongArchiveNames, SkipArchiveNames, DashArchiveNames},
                json \in JsonContents, png \in PngContents :
             archive' = [tag |-> "Zip",
                         files |-> [f \in names |-> ContentOf(f, json, png)]]
    /\ last_call' = Call("open", 0, "", 0, Some(TRUE))
    /\ UNCHANGED <<overflow_checks, pages, multi_atlas, result, image_buffer>>

FromReader ==
    /\ archive.tag \in {"Zip", "NotZip"}
    /\ result = NoResult
    /\ result' = from_reader(archive, overflow_checks)
    /\ last_call' = Call("from_reader", 0, "", 0, [tag |-> result'.tag])
    /\ UNCHANGED <<overflow_checks, pages, multi_atlas, archive, image_buffer>>

LoadFromMemory ==
    /\ archive.tag \in {"Zip", "NotZip"}
    /\ result = NoResult
    /\ result' = load_from_memory(archive, overflow_checks)
    /\ last_call' = Call("load_from_memory", 0, "", 0, [tag |-> result'.tag])
    /\ UNCHANGED <<overflow_checks, pages, multi_atlas, archive, image_buffer>>

LoadFile ==
    /\ archive.tag \in {"Zip", "NotZip", "NoFile"}
    /\ result = NoResult
    /\ result' = load_file(archive, overflow_checks)
    /\ last_call' = Call("load_file", 0, "", 0, [tag |-> result'.tag])
    /\ UNCHANGED <<overflow_checks, pages, multi_atlas, archive, image_buffer>>

Next ==
    \/ NewPageForAtlas
    \/ NewMultiAtlas
    \/ ToWriter
    \/ OpenArchive
    \/ FromReader
    \/ LoadFromMemory
    \/ LoadFile

Spec == Init /\ [][Next]_vars

----------------------------------------------------------------------------
(* Claims about the codec, checked under Spec. *)

(* A page that meets the data model: positive dimensions, a buffer of     *)
(* width * height * bytes_per_pixel bytes, and texture names that are all  *)
(* different.                                                              *)
ValidPage(p) ==
    /\ p.width >= 1
    /\ p.height >= 1
    /\ len_bytes(p) = p.width * p.height * p.bytes_per_pixel
    /\ \A i, j \in indices(p) :
          p.bounding_boxes[i].name = p.bounding_boxes[j].name => i = j

RoundTripDone == multi_atlas # NoAtlas /\ result # NoResult

BasesWithout(files, has, lacks) ==
    {b \in {SubSeq(f, 1, Len(f) - Len(has)) :
                f \in {g \in DOMAIN files : ends_with(g, has)}} :
        (b \o lacks) \notin DOMAIN files}

(* C1: for every page P of a multi-page atlas, with Origin TopLeft or      *)
(* BottomLeft and any height >= 1, writing the atlas with to_writer and    *)
(* reading it back with from_reader yields a page of the same name whose   *)
(* as_bytes() equals P's byte for byte.                                    *)
C1_RoundTripBytes ==
    (RoundTripDone /\ result.tag = "Ok") =>
        \A k \in DOMAIN multi_atlas.pages :
            LET P == multi_atlas.pages[k]
                Q == by_page_name(result.multi_atlas, P.atlas_name)
            IN /\ Q.tag = "Some"
               /\ Q.value.atlas_name = P.atlas_name
               /\ as_bytes(Q.value) = as_bytes(P)

(* C2: for every valid page P, writing it with to_writer and reading it    *)
(* back with from_reader yields a page with the same width, height,        *)
(* color_type, origin and texture_count, the same by_texture_name(n) for   *)
(* every texture name n of P and the same by_index(i) for every index i.   *)
C2_RoundTripMetadata ==
    (/\ multi_atlas # NoAtlas
     /\ archive.tag \in {"Zip", "Unfinished"}
     /\ \A k \in DOMAIN multi_atlas.pages : ValidPage(multi_atlas.pages[k])) =>
        /\ archive.tag = "Zip"
        /\ result # NoResult =>
              /\ result.tag = "Ok"
              /\ \A k \in DOMAIN multi_atlas.pages :
                    LET P == multi_atlas.pages[k]
                        Q == by_page_name(result.multi_atlas, P.atlas_name)
                    IN /\ Q.tag = "Some"
                       /\ Q.value.width = P.width
                       /\ Q.value.height = P.height
                       /\ Q.value.color_type = P.color_type
                       /\ Q.value.origin = P.origin
                       /\ texture_count(Q.value) = texture_count(P)
                       /\ \A n \in texture_names(P) :
                             by_texture_name(Q.value, n) = by_texture_name(P, n)
                       /\ \A i \in indices(P) :
                             by_index(Q.value, i) = by_index(P, i)

(* C3: for every archive in which a base name b has the entry b.json but   *)
(* no entry b.png (and no base name lacks its .json entry), from_reader    *)
(* returns Err with kind MissingImageBuffer and atlas_name b.              *)
C3_MissingImageReported ==
    (/\ archive.tag = "Zip"
     /\ result # NoResult
     /\ BasesWithout(archive.files, Ext_json, Ext_png) # {}
     /\ BasesWithout(archive.files, Ext_png, Ext_json) = {}) =>
        /\ result.tag = "Err"
        /\ result.kind = "MissingImageBuffer"
        /\ result.atlas_name \in BasesWithout(archive.files, Ext_json, Ext_png)

(* C4: for every archive in which a base name b has the entry b.png but    *)
(* no entry b.json (and no base name lacks its .png entry), from_reader    *)
(* returns Err with kind MissingCoordinateCharts and atlas_name b.         *)
C4_MissingChartsReported ==
    (/\ archive.tag = "Zip"
     /\ result # NoResult
     /\ BasesWithout(archive.files, Ext_png, Ext_json) # {}
     /\ BasesWithout(archive.files, Ext_json, Ext_png) = {}) =>
        /\ result.tag = "Err"
        /\ result.kind = "MissingCoordinateCharts"
        /\ result.atlas_name \in BasesWithout(archive.files, Ext_png, Ext_json)

(* C5: from_reader never panics on malformed input: for every set of       *)
(* archive entry names and every set of index keys in a page's metadata it *)
(* returns Ok or a typed Err.                                              *)
C5_FromReaderNeverPanics == result.tag \in {"None", "Ok", "Err"}

----------------------------------------------------------------------------
(* MultiTextureAtlas2D on its own: the caller builds pages, hands them to  *)
(* MultiTextureAtlas2D::new with a list of names of its choosing (the      *)
(* constructor compares neither the lengths nor the names), and looks      *)
(* pages up by index and by name.                                          *)

MultiInputs ==
    {[width |-> 1, height |-> 1, color_type |-> "Rgba8", origin |-> o,
      entries |-> <<>>, atlas_name |-> n, data |-> Ramp(bytes_per_pixel("Rgba8"))] :
        o \in Origin, n \in {Str_a, Str_b}}

NameLists == UNION {[1..k -> BaseNames] : k \in 0..(MaxPages + 1)}

PageQueryIndices == 0..(MaxPages + 1)

InitMulti ==
    /\ overflow_checks \in BOOLEAN
    /\ pages = <<>>
    /\ multi_atlas = NoAtlas
    /\ archive = NoArchive
    /\ result = NoResult
    /\ last_call = NoCall
    /\ image_buffer = NoImage

NewPageForMulti ==
    /\ multi_atlas = NoAtlas
    /\ NewPage(MultiInputs, MaxPages)

NewMultiAtlasNamed ==
    /\ multi_atlas = NoAtlas
    /\ \E names \in NameLists :
          multi_atlas' = MultiTextureAtlas2D_new(pages, names)
    /\ last_call' = Call("MultiTextureAtlas2D::new", 0, "", 0, Some(TRUE))
    /\ UNCHANGED <<overflow_checks, pages, archive, result, image_buffer>>

ByPageIndex ==
    /\ multi_atlas # NoAtlas
    /\ \E index \in PageQueryIndices :
          last_call' = Call("by_page_index", 0, "", index,
                            by_page_index(multi_atlas, index))
    /\ UNCHANGED <<overflow_checks, pages, multi_atlas, archive, result, image_buffer>>

ByPageName ==
    /\ multi_atlas # NoAtlas
    /\ \E name \in BaseNames :
          last_call' = Call("by_page_name", 0, name, 0,
                            by_page_name(multi_atlas, name))
    /\ UNCHANGED <<overflow_checks, pages, multi_atlas, archive, result, image_buffer>>

NextMulti ==
    \/ NewPageForMulti
    \/ NewMultiAtlasNamed
    \/ ByPageIndex
    \/ ByPageName

SpecMulti == InitMulti /\ [][NextMulti]_vars

(* C6: MultiTextureAtlas2D::by_page_index is bounds-checked: for every     *)
(* multi-atlas and every index i it returns Some(page i) when              *)
(* i < page_count() and None when i >= page_count(), i == page_count()     *)
(* included, without panicking.                                            *)
C6_ByPageIndexBoundsChecked ==
    last_call.op = "by_page_index" =>
        last_call.outcome =
            IF last_call.index < page_count(multi_atlas)
            THEN Some(multi_atlas.pages[last_call.index + 1])
            ELSE None

----------------------------------------------------------------------------
(* More claims about the page API, checked under SpecPage. *)

(* C11: for every page and every valid index i, by_index_uv(i) is          *)
(* by_index(i) divided componentwise by the atlas dimensions: top_left.u = *)
(* pixel u / width, top_left.v = pixel v / height, width = pixel width /   *)
(* atlas width, height = pixel height / atlas height.                      *)
C11_UvIsPixelOverDimensions ==
    \A k \in DOMAIN pages :
        \A i \in indices(pages[k]) :
            LET P == pages[k]
                pix == by_index(P, i)
                uv == by_index_uv(P, i)
            IN /\ pix.tag = "Some"
               /\ uv.tag = "Some"
               /\ uv.value.top_left.u = F32Div(pix.value.top_left.u, P.width)
               /\ uv.value.top_left.v = F32Div(pix.value.top_left.v, P.height)
               /\ uv.value.width = F32Div(pix.value.width, P.width)
               /\ uv.value.height = F32Div(pix.value.height, P.height)
               /\ (last_call.op = "by_index_uv" /\ last_call.page = k
                   /\ last_call.index = i) => last_call.outcome = uv

(* A page that is not square holds a box with v = 1, and by_index_uv       *)
(* returned its uv box, with top_left.v = 1 / height.                      *)
C11_Witness ==
    /\ last_call.op = "by_index_uv"
    /\ last_call.outcome.tag = "Some"
    /\ pages[last_call.page].width # pages[last_call.page].height
    /\ by_index(pages[last_call.page], last_call.index).value.top_left.v = 1
    /\ last_call.outcome.value.top_left.v =
           [kind |-> "Finite", num |-> 1, den |-> pages[last_call.page].height]

----------------------------------------------------------------------------
(* orient_image on its own: the caller holds a buffer of `height` rows of  *)
(* `width_in_bytes` bytes (or one byte longer, or one byte shorter) and    *)
(* applies orient_image to it in place, up to MaxCalls times.  A call that *)
(* panics does not return, and the buffer is not looked at afterwards.     *)

MaxCalls == 2

OrientHeights == 0..(MaxDim + 1)

OrientStrides == 0..MaxDim

OrientBuffers(height, width_in_bytes) ==
    {Ramp(height * width_in_bytes + d) : d \in {-1, 0, 1}}

InitOrient ==
    /\ overflow_checks \in BOOLEAN
    /\ pages = <<>>
    /\ multi_atlas = NoAtlas
    /\ archive = NoArchive
    /\ result = NoResult
    /\ last_call = NoCall
    /\ image_buffer = NoImage

TakeBuffer ==
    /\ image_buffer = NoImage
    /\ \E origin \in Origin, height \in OrientHeights, width_in_bytes \in OrientStrides :
          \E buf \in OrientBuffers(height, width_in_bytes) :
              image_buffer' = [tag |-> "Image", image |-> buf, original |-> buf,
                               origin |-> origin, height |-> height,
                               width_in_bytes |-> width_in_bytes, calls |-> 0]
    /\ UNCHANGED <<overflow_checks, pages, multi_atlas, archive, result, last_call>>

OrientImage ==
    /\ image_buffer.tag = "Image"
    /\ image_buffer.calls < MaxCalls
    /\ LET r == orient_image(image_buffer.image, image_buffer.origin,
                             image_buffer.height, image_buffer.width_in_bytes)
       IN IF r.tag = "Panic"
          THEN /\ image_buffer' = [image_buffer EXCEPT !.tag = "Panicked"]
               /\ last_call' = Call("orient_image", 0, "", 0, r)
          ELSE /\ image_buffer' = [image_buffer EXCEPT !.image = r.image,
                                                       !.calls = @ + 1]
               /\ last_call' = Call("orient_image", 0, "", 0, Some(TRUE))
    /\ UNCHANGED <<overflow_checks, pages, multi_atlas, archive, result>>

NextOrient ==
    \/ TakeBuffer
    \/ OrientImage

SpecOrient == InitOrient /\ [][NextOrient]_vars

(* C12: orient_image is an involution: applied twice with the same origin, *)
(* height and row stride it restores the original byte sequence, for every *)
(* buffer of length height * stride, odd heights and heights 0 and 1       *)
(* included.                                                               *)
C12_OrientImageInvolution ==
    (/\ image_buffer.tag = "Image"
     /\ Len(image_buffer.original) = image_buffer.height * image_buffer.width_in_bytes
     /\ image_buffer.calls = 2) =>
        image_buffer.image = image_buffer.original

(* A BottomLeft buffer of three rows of several bytes was flipped (its     *)
(* bytes moved) and flipped back.                                          *)
C12_Witness ==
    /\ image_buffer.tag = "Image"
    /\ image_buffer.origin = "BottomLeft"
    /\ image_buffer.height = 3
    /\ image_buffer.width_in_bytes >= 2
    /\ Len(image_buffer.original) = image_buffer.height * image_buffer.width_in_bytes
    /\ image_buffer.calls = 2
    /\ image_buffer.image = image_buffer.original
    /\ orient_image(image_buffer.image, image_buffer.origin, image_buffer.height,
                    image_buffer.width_in_bytes).image # image_buffer.original

----------------------------------------------------------------------------
(* More claims about the codec, checked under Spec. *)

IsPowerOfTwo(x) == \E k \in 0..x : 2 ^ k = x

(* An archive that holds one page and nothing wrong with it: the two       *)
(* entries of one base name, metadata that parses with index keys          *)
(* 0..n-1, and an 8-bit RGBA image.                                        *)
OneGoodPage(files) ==
    \E b \in ArchiveBaseNames :
        /\ {f \in DOMAIN files : ends_with(f, Ext_json) \/ ends_with(f, Ext_png)}
               = {b \o Ext_json, b \o Ext_png}
        /\ files[b \o Ext_json].kind = "Json"
        /\ LET keys == DOMAIN files[b \o Ext_json].charts
           IN keys = {UsizeToString(i) : i \in 0..(Cardinality(keys) - 1)}
        /\ files[b \o Ext_png].kind = "Png"
        /\ files[b \o Ext_png].color_type = "Rgba8"

(* C13: for every decoded page the warning is                              *)
(* TextureDimensionsAreNotAPowerOfTwo exactly when the width or the height *)
(* is not a power of two, and NoWarnings otherwise; the warning never      *)
(* turns a successful decode into an error.                                *)
C13_WarningIffNotPowerOfTwo ==
    /\ result.tag = "Ok" =>
          \A k \in DOMAIN result.multi_atlas.pages :
              LET P == result.multi_atlas.pages[k]
              IN /\ k \in DOMAIN result.warnings
                 /\ result.warnings[k] =
                        IF IsPowerOfTwo(P.width) /\ IsPowerOfTwo(P.height)
                        THEN "NoWarnings"
                        ELSE "TextureDimensionsAreNotAPowerOfTwo"
    /\ (archive.tag = "Zip" /\ result # NoResult /\ OneGoodPage(archive.files)) =>
          result.tag = "Ok"

(* An archive from elsewhere with one good page whose width is not a power *)
(* of two was decoded: Ok, with the warning set.                           *)
C13_Witness ==
    /\ multi_atlas = NoAtlas
    /\ archive.tag = "Zip"
    /\ OneGoodPage(archive.files)
    /\ result.tag = "Ok"
    /\ \E k \in DOMAIN result.multi_atlas.pages :
          /\ ~IsPowerOfTwo(result.multi_atlas.pages[k].width)
          /\ result.warnings[k] = "TextureDimensionsAreNotAPowerOfTwo"

(* Base names that have both entries, in sorted order of their names. *)
CompleteBases(files) ==
    {b \in {SubSeq(f, 1, Len(f) - Len(Ext_json)) :
                f \in {g \in DOMAIN files : ends_with(g, Ext_json)}} :
        (b \o Ext_png) \in DOMAIN files}

SomeEntryMissing(files) ==
    \/ BasesWithout(files, Ext_json, Ext_png) # {}
    \/ BasesWithout(files, Ext_png, Ext_json) # {}

(* C14: decoding is all-or-nothing: if any base name lacks its .json or    *)
(* its .png entry, from_reader does not return a multi atlas, and a        *)
(* MultiTextureAtlas2D holding only some of the archive's pages is never   *)
(* returned: an Ok result holds one page for every base name of the        *)
(* archive.                                                                *)
C14_AllOrNothing ==
    (archive.tag = "Zip" /\ result.tag = "Ok") =>
        /\ ~SomeEntryMissing(archive.files)
        /\ {result.multi_atlas.pages[k].atlas_name :
                k \in DOMAIN result.multi_atlas.pages} = CompleteBases(archive.files)

(* The errors raised while one page is being decoded. *)
PageErrorKinds ==
    {"CouldNotLoadCoordinateCharts", "CouldNotLoadAtlasImageBuffer", "UnrecognizedColorType"}

(* C15: every error that from_reader returns for a failure while decoding  *)
(* page p (missing or malformed metadata, missing image entry, image       *)
(* decode failure, unrecognized color type) identifies that page: its      *)
(* atlas_name() is p, the base name of an entry of the archive.            *)
C15_PageErrorNamesPage ==
    (archive.tag = "Zip" /\ result.tag = "Err" /\ result.kind \in PageErrorKinds) =>
        (result.atlas_name \o Ext_json) \in DOMAIN archive.files

(* C16: opening fails cleanly: load_file on a path where no file is, and   *)
(* from_reader, load_from_memory or load_file on bytes that are not an     *)
(* archive, return Err with kind CouldNotOpenTextureAtlas, without         *)
(* panicking and before any entry is listed or read (no page name in the   *)
(* error).                                                                 *)
C16_OpenFailsCleanly ==
    (archive.tag \in {"NotZip", "NoFile"} /\ result # NoResult) =>
        result = Err("CouldNotOpenTextureAtlas", <<>>)

(* load_file was called on a path where no file is and returned the error. *)
C16_Witness ==
    /\ archive.tag = "NoFile"
    /\ last_call.op = "load_file"
    /\ result.tag = "Err"
    /\ result.kind = "CouldNotOpenTextureAtlas"

----------------------------------------------------------------------------
(* More claims about MultiTextureAtlas2D, checked under SpecMulti. *)

(* The page_names map pairs the names one to one with the page indices     *)
(* 0..page_count()-1.                                                      *)
PageNamesBijective(m) ==
    /\ \A n1, n2 \in DOMAIN m.page_names :
          m.page_names[n1] = m.page_names[n2] => n1 = n2
    /\ {m.page_names[n] : n \in DOMAIN m.page_names} = 0..(page_count(m) - 1)

(* C17: in every MultiTextureAtlas2D built by MultiTextureAtlas2D::new     *)
(* the page names are unique and the page_names map is a bijection between *)
(* the names and the page indices 0..page_count()-1.                       *)
C17_PageNamesBijection ==
    multi_atlas.tag = "MultiAtlas" => PageNamesBijective(multi_atlas)

----------------------------------------------------------------------------
(* Claims about the row flip on decode and the pairing scan, under Spec. *)

(* C18: on decode the row flip is applied only for Origin = BottomLeft: a  *)
(* page whose metadata declares Origin = TopLeft is decoded with its rows  *)
(* in the image's own top-to-bottom order (no flip), and a page with       *)
(* Origin = BottomLeft is flipped exactly once.                            *)
C18_DecodeFlipsOnlyBottomLeft ==
    (archive.tag = "Zip" /\ result.tag = "Ok") =>
        \A k \in DOMAIN result.multi_atlas.pages :
            LET P == result.multi_atlas.pages[k]
                png == archive.files[P.atlas_name \o Ext_png]
                json == archive.files[P.atlas_name \o Ext_json]
            IN as_bytes(P) =
                   orient_image(png.data, json.origin, png.height,
                                png.width * bytes_per_pixel(png.color_type)).image

(* C19: for every set of archive entry names, the pairing scan classifies  *)
(* each base name by presence alone: complete iff both <base>.json and     *)
(* <base>.png are present, missing-image iff only <base>.json is,          *)
(* missing-coordinates iff only <base>.png is; a .json entry is never      *)
(* paired with the .png of a different base name.  (Scans that panic are   *)
(* left aside here.)                                                       *)
C19_PairingByPresence ==
    (archive.tag = "Zip" /\ result # NoResult) =>
        LET scan == extract_atlas_names(archive.files)
        IN scan.tag = "Ok" =>
              /\ Range(scan.atlas_names) = CompleteBases(archive.files)
              /\ Range(scan.atlases_missing_images) =
                     BasesWithout(archive.files, Ext_json, Ext_png)
              /\ Range(scan.atlases_missing_coordinates) =
                     BasesWithout(archive.files, Ext_png, Ext_json)

----------------------------------------------------------------------------
(* More claims about orient_image, checked under SpecOrient. *)

(* C20: for Origin = BottomLeft, after orient_image the byte at (row r,     *)
(* column c) is the original byte at (row height-1-r, column c) for every  *)
(* r < height and c < row stride, so with an odd height the middle row is  *)
(* unchanged, and the buffer length is unchanged; for Origin = TopLeft the *)
(* buffer is unchanged.                                                    *)
C20_RowsMirrored ==
    (/\ image_buffer.tag = "Image"
     /\ Len(image_buffer.original) = image_buffer.height * image_buffer.width_in_bytes
     /\ image_buffer.calls = 1) =>
        LET height == image_buffer.height
            stride == image_buffer.width_in_bytes
        IN /\ Len(image_buffer.image) = Len(image_buffer.original)
           /\ IF image_buffer.origin = "BottomLeft"
              THEN \A r \in 0..(height - 1), c \in 0..(stride - 1) :
                       image_buffer.image[r * stride + c + 1] =
                           image_buffer.original[(height - 1 - r) * stride + c + 1]
              ELSE image_buffer.image = image_buffer.original

(* A BottomLeft buffer of three rows of several bytes was flipped once:    *)
(* the first row now holds the bytes of the last, the middle row is as it  *)
(* was.                                                                    *)
C20_Witness ==
    /\ image_buffer.tag = "Image"
    /\ image_buffer.origin = "BottomLeft"
    /\ image_buffer.height = 3
    /\ image_buffer.width_in_bytes = 2
    /\ image_buffer.calls = 1
    /\ image_buffer.original = <<0, 1, 2, 3, 4, 5>>
    /\ image_buffer.image = <<4, 5, 2, 3, 0, 1>>

----------------------------------------------------------------------------
(* Claims about the corner queries, checked under SpecPage. *)

(* The bounding-box invariant of the data model. *)
BoxInvariant(p, box) ==
    /\ box.width > 0
    /\ box.height > 0
    /\ box.top_left.u + box.width <= p.width
    /\ box.top_left.v < p.height

(* The box a corner query looks up: by index or by texture name. *)
QueriedBox(call) ==
    IF call.op \in IndexOps
    THEN by_index(pages[call.page], call.index)
    ELSE by_texture_name(pages[call.page], call.name)

(* C21: for every texture whose pixel box satisfies the bounding-box       *)
(* invariant (width > 0, height > 0, top_left.u + width <= atlas width,    *)
(* top_left.v < atlas height), by_index_corners and                        *)
(* by_texture_name_corners return bottom_left = (u, v - height),           *)
(* top_right = (u + width, v), bottom_right = (u + width, v - height),     *)
(* with no underflow or overflow of the unsigned arithmetic.               *)
C21_CornersWithoutUnderflow ==
    (/\ last_call.op \in {"by_index_corners", "by_texture_name_corners"}
     /\ QueriedBox(last_call).tag = "Some"
     /\ BoxInvariant(pages[last_call.page], QueriedBox(last_call).value)) =>
        LET box == QueriedBox(last_call).value
            u == box.top_left.u
            v == box.top_left.v
        IN /\ v - box.height >= 0
           /\ last_call.outcome =
                  Some([top_left |-> box.top_left,
                        top_right |-> OffsetPixelCoords(u + box.width, v),
                        bottom_left |-> OffsetPixelCoords(u, v - box.height),
                        bottom_right |-> OffsetPixelCoords(u + box.width, v - box.height)])

(* The other value of Origin. *)
OtherOrigin(o) == IF o = "TopLeft" THEN "BottomLeft" ELSE "TopLeft"

(* What a corner query returns on a page, as recorded in a call. *)
CornerQuery(p, call, checks) ==
    CASE call.op = "by_index_corners" -> by_index_corners(p, call.index, checks)
      [] call.op = "by_index_corners_uv" -> by_index_corners_uv(p, call.index, checks)
      [] call.op = "by_texture_name_corners" -> by_texture_name_corners(p, call.name, checks)
      [] call.op = "by_texture_name_corners_uv" ->
             by_texture_name_corners_uv(p, call.name, checks)

CornerOps ==
    {"by_index_corners", "by_index_corners_uv",
     "by_texture_name_corners", "by_texture_name_corners_uv"}

(* C22: the corner derivation depends on the page's Origin: for the same   *)
(* pixel bounding box, the bottom corners a corner query returns on a page *)
(* differ from the ones it returns on the same page with the other Origin  *)
(* (a TopLeft page and a BottomLeft page do not both use v - height).      *)
C22_CornersDependOnOrigin ==
    (/\ last_call.op \in CornerOps
     /\ QueriedBox(last_call).tag = "Some") =>
        LET P == pages[last_call.page]
            Q == [P EXCEPT !.origin = OtherOrigin(P.origin)]
        IN CornerQuery(Q, last_call, overflow_checks) # last_call.outcome

----------------------------------------------------------------------------
(* More claims about the decoder, checked under Spec. *)

(* Base names with exactly one of the two entries. *)
UnpairedBases(files) ==
    BasesWithout(files, Ext_json, Ext_png) \cup BasesWithout(files, Ext_png, Ext_json)

(* The entry an unpaired base name has. *)
EntryOfUnpaired(files, b) ==
    IF (b \o Ext_json) \in DOMAIN files THEN b \o Ext_json ELSE b \o Ext_png

(* The unpaired base name whose entry comes first in the sorted list. *)
FirstUnpaired(files) ==
    CHOOSE b \in UnpairedBases(files) :
        \A c \in UnpairedBases(files) \ {b} :
            StrLess(EntryOfUnpaired(files, b), EntryOfUnpaired(files, c))

(* The pairing scan ran to its end and classified every base name by       *)
(* the entries present.                                                    *)
ScanAgreesWithPresence(files) ==
    LET scan == extract_atlas_names(files)
    IN /\ scan.tag = "Ok"
       /\ Range(scan.atlas_names) = CompleteBases(files)
       /\ Range(scan.atlases_missing_images) = BasesWithout(files, Ext_json, Ext_png)
       /\ Range(scan.atlases_missing_coordinates) =
              BasesWithout(files, Ext_png, Ext_json)

(* C23: when several entries are unpaired, the error returned by           *)
(* from_reader names the first unpaired base name in sorted scan order,    *)
(* whether that one is a missing image or a missing coordinate chart.      *)
(* (Stated for the archives whose scan classifies every base name          *)
(* rightly.)                                                               *)
C23_FirstUnpairedNamed ==
    (/\ archive.tag = "Zip"
     /\ result # NoResult
     /\ Cardinality(UnpairedBases(archive.files)) >= 2
     /\ ScanAgreesWithPresence(archive.files)) =>
        LET b == FirstUnpaired(archive.files)
        IN result = Err(IF (b \o Ext_json) \in DOMAIN archive.files
                        THEN "MissingImageBuffer"
                        ELSE "MissingCoordinateCharts", b)

(* C24: on success from_reader returns the pages in the lexicographically  *)
(* sorted order of their base names: pages()[i].atlas_name() is the i-th   *)
(* sorted complete base name, and by_page_name(n) returns the page whose   *)
(* atlas_name() is n.                                                      *)
C24_PagesInSortedBaseNameOrder ==
    (archive.tag = "Zip" /\ result.tag = "Ok") =>
        LET ps == result.multi_atlas.pages
            sorted == SortStrs(CompleteBases(archive.files))
        IN /\ Len(ps) = Len(sorted)
           /\ \A i \in DOMAIN ps :
                 /\ ps[i].atlas_name = sorted[i]
                 /\ by_page_name(result.multi_atlas, sorted[i]) = Some(ps[i])

----------------------------------------------------------------------------
(* Claims about the encoder, checked under Spec. *)

(* The entries to_writer starts for the pages k.. of a list, in order. *)
RECURSIVE EntriesOfPages(_, _)
EntriesOfPages(ps, k) ==
    IF k > Len(ps) THEN <<>>
    ELSE <<ps[k].atlas_name \o Ext_json, ps[k].atlas_name \o Ext_png>>
             \o EntriesOfPages(ps, k + 1)

(* to_writer was the last call made. *)
ToWriterDone == last_call.op = "to_writer" /\ multi_atlas # NoAtlas

(* C25: to_writer processes pages in pages() order; for each page it       *)
(* starts the entry <atlas_name>.json and then the entry <atlas_name>.png, *)
(* and it finishes the archive exactly once, after the last page; if any   *)
(* step fails it returns Err without finishing the archive and without     *)
(* writing any later page.                                                 *)
C25_EntriesInPageOrder ==
    ToWriterDone =>
        LET expected == EntriesOfPages(multi_atlas.pages, 1)
            n == Len(archive.entries)
        IN /\ n <= Len(expected)
           /\ archive.entries = SubSeq(expected, 1, n)
           /\ last_call.outcome.tag \in {"Ok", "Err"}
           /\ last_call.outcome.tag = "Ok" =>
                  archive.tag = "Zip" /\ archive.entries = expected
           /\ last_call.outcome.tag = "Err" =>
                  archive.tag = "Unfinished" /\ n < Len(expected) + 1

----------------------------------------------------------------------------
(* More claims about MultiTextureAtlas2D, checked under SpecMulti. *)

(* C26: MultiTextureAtlas2D::new(pages, names) pairs names with pages by   *)
(* position, a name that occurs more than once standing for its last       *)
(* position; and for every pair of lists and every name, by_page_name      *)
(* returns Some(page at the name's position) or None, never a panic.       *)
C26_ByPageNameSomeOrNone ==
    (multi_atlas # NoAtlas /\ last_call.op = "by_page_name") =>
        IF last_call.name \in DOMAIN multi_atlas.page_names
        THEN /\ last_call.outcome.tag = "Some"
             /\ last_call.outcome.value =
                    multi_atlas.pages[multi_atlas.page_names[last_call.name] + 1]
        ELSE last_call.outcome = None

----------------------------------------------------------------------------
(* More claims about the decoder, checked under Spec. *)

(* The color types load_image_from_reader accepts from the codec. *)
DecoderColorTypes == {"Rgba8"}

(* The first page from_reader decodes gets as far as the color type of     *)
(* its image, and the codec reports one the decoder does not accept.       *)
FirstPageUnsupportedColor(files) ==
    LET scan == extract_atlas_names(files)
    IN /\ scan.tag = "Ok"
       /\ scan.atlases_missing_coordinates = <<>>
       /\ scan.atlases_missing_images = <<>>
       /\ scan.atlas_names # <<>>
       /\ LET json_name == scan.atlas_names[1] \o Ext_json
              png_name == scan.atlas_names[1] \o Ext_png
          IN /\ json_name \in DOMAIN files
             /\ png_name \in DOMAIN files
             /\ JsonDecode(files[json_name]).tag = "Ok"
             /\ files[png_name].kind = "Png"
             /\ files[png_name].color_type \notin DecoderColorTypes

(* C27: if the image codec reports a color type that is not supported,     *)
(* decoding that page fails with kind UnrecognizedColorType before any row *)
(* flip or page construction; so every page returned by from_reader has a  *)
(* supported color type whose bytes_per_pixel and channel_count match the  *)
(* page's fields.                                                          *)
C27_UnsupportedColorTypeRejected ==
    (archive.tag = "Zip" /\ result # NoResult) =>
        /\ FirstPageUnsupportedColor(archive.files) =>
               result.tag = "Err" /\ result.kind = "UnrecognizedColorType"
        /\ result.tag = "Ok" =>
               \A k \in DOMAIN result.multi_atlas.pages :
                   LET P == result.multi_atlas.pages[k]
                   IN /\ P.color_type \in DecoderColorTypes
                      /\ P.bytes_per_pixel = bytes_per_pixel(P.color_type)
                      /\ P.channel_count = channel_count(P.color_type)
                      /\ P.data.color_type = P.color_type
                      /\ P.data.bytes_per_pixel = P.bytes_per_pixel
                      /\ P.data.channel_count = P.channel_count

(* C27 witness: an archive whose image is Rgb8 and whose chart keys would  *)
(* make the page constructor panic has been refused with                   *)
(* UnrecognizedColorType.                                                  *)
C27_Witness ==
    /\ archive.tag = "Zip"
    /\ result.tag = "Err"
    /\ result.kind = "UnrecognizedColorType"
    /\ FirstPageUnsupportedColor(archive.files)
    /\ \E f \in DOMAIN archive.files :
          /\ archive.files[f].kind = "Json"
          /\ DOMAIN archive.files[f].charts = {UsizeToString(1)}

(* The archive with only its .json and .png entries. *)
WithoutOtherEntries(reader) ==
    [reader EXCEPT !.files =
        [f \in {g \in DOMAIN reader.files :
                    ends_with(g, Ext_json) \/ ends_with(g, Ext_png)} |-> reader.files[f]]]

(* C28: archive entries whose names end in neither .json nor .png do not   *)
(* affect decoding: the result from_reader gave on the archive is the      *)
(* result it gives on the archive without those entries (same pages,       *)
(* names, warnings, or same error).                                        *)
C28_OtherEntriesIgnored ==
    (archive.tag = "Zip" /\ result # NoResult) =>
        result = from_reader(WithoutOtherEntries(archive), overflow_checks)

(* C28 witness: an archive with a complete page and an entry r.txt has     *)
(* been decoded to a page.                                                 *)
C28_Witness ==
    /\ archive.tag = "Zip"
    /\ Str_r_txt \in DOMAIN archive.files
    /\ result.tag = "Ok"
    /\ Len(result.multi_atlas.pages) >= 1

----------------------------------------------------------------------------
(* More claims about the page constructor, checked under SpecPage. *)

(* C29: TextureAtlas2D::new completes only when the distinct entry indices *)
(* are exactly {0, ..., n-1} for n distinct indices; after it completes,   *)
(* indices() is exactly that set, so by_index(i) and by_index_uv(i) for    *)
(* i < n never look up a missing key.                                      *)
C29_IndicesAreInitialSegment ==
    /\ \A k \in DOMAIN pages :
          LET n == Cardinality(DOMAIN pages[k].bounding_boxes)
          IN /\ DOMAIN pages[k].bounding_boxes = 0..(n - 1)
             /\ indices(pages[k]) = 0..(n - 1)
             /\ \A i \in 0..(n - 1) :
                   /\ by_index(pages[k], i).tag = "Some"
                   /\ by_index_uv(pages[k], i).tag = "Some"
    /\ last_call.op \in {"by_index", "by_index_uv"} => last_call.outcome.tag # "Panic"

(* C29 witness: a page built from two entries with the indices 0 and 1 has *)
(* been asked for index 1 and has answered with a box.                     *)
C29_Witness ==
    /\ last_call.op = "by_index"
    /\ last_call.index = 1
    /\ last_call.outcome.tag = "Some"
    /\ DOMAIN pages[last_call.page].bounding_boxes = {0, 1}

----------------------------------------------------------------------------
(* More claims about the result of from_reader, checked under Spec. *)

(* The warning atlas_from_reader computes from an image's dimensions. *)
WarningOf(width, height, checks) ==
    IF NotPowerOfTwo(width, checks).value \/ NotPowerOfTwo(height, checks).value
    THEN "TextureDimensionsAreNotAPowerOfTwo"
    ELSE "NoWarnings"

(* C30: on success from_reader returns exactly one warning per page:       *)
(* warnings.len() == page_count(), and warnings[i] is the warning computed *)
(* from the width and height of pages()[i].                                *)
C30_OneWarningPerPage ==
    result.tag = "Ok" =>
        /\ Len(result.warnings) = page_count(result.multi_atlas)
        /\ \A i \in 1..page_count(result.multi_atlas) :
              result.warnings[i] =
                  WarningOf(result.multi_atlas.pages[i].width,
                            result.multi_atlas.pages[i].height, overflow_checks)

(* C30 witness: a decode returned two pages, one with the warning and one  *)
(* without.                                                                *)
C30_Witness ==
    /\ result.tag = "Ok"
    /\ page_count(result.multi_atlas) = 2
    /\ Len(result.warnings) = 2
    /\ result.warnings[1] # result.warnings[2]

============================================================================
